---- MODULE Spec2Model ----
(***************************************************************************)
(* Weighted, cooldown-constrained playlist sampling of manual_shuffle:     *)
(* exp_star, binary_search_weight and weight_cdf_shuffle of src/src.py.    *)
(*                                                                         *)
(* Numbers the program holds as Python ints and floats are modelled as     *)
(* exact rationals <<numerator, denominator>> in lowest terms, denominator *)
(* > 0: float rounding is not modelled. The weights b ** (stars - 5) of    *)
(* the catalogs below are exact in binary floating point for b = 0, 1, 2.  *)
(* Python list indices are 0-based; TLA+ sequences are 1-based, so index i *)
(* of the program is position i + 1 of the model's sequence.               *)
(***************************************************************************)
EXTENDS Integers, Sequences, FiniteSets, TLC

\* ---------------------------------------------------------------- bounds
\* Largest catalog (number of songs in my_music).
MaxTracks == 2
\* Number of loop iterations and playlist limit: the program's literal 1000
\* (range(1000), selected_tracks[:1000]), scaled down.
N == 3
\* notlast ranges over 0..MaxNotlast.
MaxNotlast == 2
\* Song.stars ranges over MinStars..MaxStars (a slice of the 1-10 scale
\* around the default rating 5).
MinStars == 4
MaxStars == 6
\* kwargs['b'] ranges over 0..MaxB.
MaxB == 2
\* The day number of datetime.now(); Song.date_added ranges over 0..Today, so
\* the age of a song in whole days ranges over 0..Today.
Today == 12
\* The rating scale of Song.stars ("Default rating 1-10").
MinRating == 1
MaxRating == 10
\* binary_search_weight alone: longest table, and the grid k/Grid of values.
MaxLen == 4
Grid == 10

VARIABLES
    my_music,           \* PlaylistManager: the songs in insertion order
    kwargs,             \* keyword arguments of the weight function
    notlast,            \* cooldown window
    pc,                 \* position in weight_cdf_shuffle
    weights,            \* local list weights
    sums,               \* local list sums (normalized once built)
    song_ids,           \* local list song_ids
    total_weight,       \* local total_weight
    ii,                 \* loop variable of the for loop (next value)
    selected_tracks,    \* the selection buffer
    playlist_tracks,    \* local playlist_tracks
    sink,               \* track lists passed to create_playlist_from_ids
    error,              \* the exception that ended the run, or "none"
    cumulative_weights, \* argument of a stand-alone binary_search_weight call
    target,             \* argument of a stand-alone binary_search_weight call
    found               \* its return value, -1 before the call

vars == <<my_music, kwargs, notlast, pc, weights, sums, song_ids, total_weight,
          ii, selected_tracks, playlist_tracks, sink, error,
          cumulative_weights, target, found>>

runVars == <<my_music, kwargs, notlast, pc, weights, sums, song_ids,
             total_weight, ii, selected_tracks, playlist_tracks, sink,
             error>>

searchVars == <<cumulative_weights, target, found>>

\* ------------------------------------------------------------ arithmetic
Min(x, y) == IF x < y THEN x ELSE y
Max(x, y) == IF x > y THEN x ELSE y
Abs(x) == IF x < 0 THEN -x ELSE x

RECURSIVE GCD(_, _)
GCD(x, y) == IF y = 0 THEN x ELSE GCD(y, x % y)

\* The pair p = <<n, d>> as the rational n/d in lowest terms, d > 0. A zero
\* denominator is kept as it is: it is the value of a division Python
\* refuses (ZeroDivisionError).
Lowest(p) ==
    IF p[2] = 0 THEN p
    ELSE LET g == GCD(Abs(p[1]), Abs(p[2]))
             s == IF p[2] < 0 THEN -1 ELSE 1
         IN  <<s * (p[1] \div g), s * (p[2] \div g)>>

\* Each operation evaluates its arguments once (p \in {...}) and reduces the
\* result to lowest terms, so that equal numbers are equal values.
Rat(n, d) == CHOOSE r \in {Lowest(p) : p \in {<<n, d>>}} : TRUE

Zero == <<0, 1>>
One == <<1, 1>>

\* x + y, x / y, x * y, x > y and x >= y on numbers.
RatAdd(x, y) ==
    CHOOSE r \in {Lowest(<<p[1][1] * p[2][2] + p[2][1] * p[1][2],
                           p[1][2] * p[2][2]>>) : p \in {<<x, y>>}} : TRUE

RatDiv(x, y) ==
    CHOOSE r \in {Lowest(<<p[1][1] * p[2][2], p[1][2] * p[2][1]>>)
                     : p \in {<<x, y>>}} : TRUE

RatMul(x, y) ==
    CHOOSE r \in {Lowest(<<p[1][1] * p[2][1], p[1][2] * p[2][2]>>)
                     : p \in {<<x, y>>}} : TRUE

RatGT(x, y) == \E p \in {<<x, y>>} : p[1][1] * p[2][2] > p[2][1] * p[1][2]
RatGE(x, y) == \E p \in {<<x, y>>} : p[1][1] * p[2][2] >= p[2][1] * p[1][2]

RECURSIVE Pow(_, _)
Pow(x, e) == IF e = 0 THEN 1 ELSE x * Pow(x, e - 1)

\* -------------------------------------------------------- weight function
\* exp_star: b ** (song.stars - 5). Python raises ZeroDivisionError for
\* 0 ** (negative exponent); 0 ** 0 is 1.
exp_star_raises(song, b) == b = 0 /\ song.stars < 5

exp_star(song, b) ==
    IF song.stars >= 5 THEN Rat(Pow(b, song.stars - 5), 1)
    ELSE Rat(1, Pow(b, 5 - song.stars))

\* Faulty variant: the rating is re-centred in place (song.stars -= 5).
SongAfterWeight_recentred(song) == [song EXCEPT !.stars = song.stars - 5]

\* The song after fun(song, **kwargs): exp_star reads song.stars and assigns
\* nothing.
SongAfterWeight(song) == song

\* (datetime.now() - song.date_added).days, dates being day numbers.
DaysSince(song) == Today - song.date_added

\* Faulty variant: the bonus is given whatever the rating.
exp_star_recent_anystars(song, b, days_back, weight_day) ==
    IF DaysSince(song) < days_back
    THEN RatAdd(exp_star(song, b),
                RatMul(Rat(days_back - DaysSince(song), 1), weight_day))
    ELSE exp_star(song, b)

\* exp_star_recent: exp_star plus a linear bonus for a song with stars == 5
\* added fewer than days_back days ago.
exp_star_recent(song, b, days_back, weight_day) ==
    IF song.stars = 5 /\ DaysSince(song) < days_back
    THEN RatAdd(exp_star(song, b),
                RatMul(Rat(days_back - DaysSince(song), 1), weight_day))
    ELSE exp_star(song, b)

\* ---------------------------------------------------- distribution builder
\* weights: fun(song, **kwargs) for every song, in catalog order.
ComputeWeights(music, kw) == [i \in 1..Len(music) |-> exp_star(music[i], kw.b)]

\* Faulty variant: the weight is appended without the running sum.
RECURSIVE Accumulate_noadd(_, _)
Accumulate_noadd(ws, acc) ==
    IF ws = <<>> THEN acc
    ELSE Accumulate_noadd(Tail(ws), Append(acc, Head(ws)))

\* sums = [0]; for each weight: sums.append(weight + sums[-1]).
RECURSIVE Accumulate(_, _)
Accumulate(ws, acc) ==
    IF ws = <<>> THEN acc
    ELSE Accumulate(Tail(ws), Append(acc, RatAdd(Head(ws), acc[Len(acc)])))

\* Faulty variant: the leading 0 is not popped.
RunningSums_nopop(ws) == Accumulate(ws, <<Zero>>)

\* The running sums after sums.pop(0).
RunningSums(ws) == Tail(Accumulate(ws, <<Zero>>))

\* sum(weights): a left fold from 0.
RECURSIVE SumFrom(_, _)
SumFrom(ws, acc) ==
    IF ws = <<>> THEN acc ELSE SumFrom(Tail(ws), RatAdd(acc, Head(ws)))

sum(ws) == SumFrom(ws, Zero)

\* Faulty variant: the division by zero goes through silently.
NormalizeRaises_never(ss, total) == FALSE

\* [s / total_weight for s in sums] raises ZeroDivisionError at its first
\* element when total_weight is 0; over an empty list it divides nothing.
NormalizeRaises(ss, total) == ss # <<>> /\ total = Zero

Normalize(ss, total) == [i \in 1..Len(ss) |-> RatDiv(ss[i], total)]

\* list(my_music.keys())
Keys(music) == [i \in 1..Len(music) |-> music[i].id]

\* The catalog after the loop over my_music.items(): the songs in the same
\* order under the same keys, each as fun left it.
AfterItems(music) == [i \in 1..Len(music) |-> SongAfterWeight(music[i])]

\* ------------------------------------------------------------------ sampler
\* Find the leftmost index where cumulative_weights[index] > target.
RECURSIVE BSLoop(_, _, _, _)
BSLoop(cw, t, left, right) ==
    IF left < right
    THEN LET mid == (left + right) \div 2
         IN  IF RatGT(cw[mid + 1], t)
             THEN BSLoop(cw, t, left, mid)
             ELSE BSLoop(cw, t, mid + 1, right)
    ELSE left

RECURSIVE BSLoopGE(_, _, _, _)
BSLoopGE(cw, t, left, right) ==
    IF left < right
    THEN LET mid == (left + right) \div 2
         IN  IF RatGE(cw[mid + 1], t)
             THEN BSLoopGE(cw, t, left, mid)
             ELSE BSLoopGE(cw, t, mid + 1, right)
    ELSE left

\* Faulty variant: the comparison is >= instead of >.
binary_search_weight_ge(cw, t) == BSLoopGE(cw, t, 0, Len(cw))

binary_search_weight(cw, t) == BSLoop(cw, t, 0, Len(cw))

\* random.random() returns a float in [0, 1). Every such value either equals
\* an entry of the table or lies strictly between two neighbouring points of
\* {0} \cup table \cup {1}; one value of each kind is drawn: 0, every entry
\* in [0, 1), and the midpoint of every gap.
Points(ss) ==
    {Zero, One} \cup {ss[i] : i \in {j \in 1..Len(ss) :
                                       RatGE(ss[j], Zero) /\ RatGE(One, ss[j])}}

Adjacent(P, p, q) ==
    RatGT(q, p) /\ ~ \E m \in P : RatGT(m, p) /\ RatGT(q, m)

RandomValues(ss) ==
    UNION {(P \ {One}) \cup
           {RatDiv(RatAdd(pq[1], pq[2]), <<2, 1>>) :
               pq \in {x \in P \X P : Adjacent(P, x[1], x[2])}}
             : P \in {Points(ss)}}

\* The Python slice s[-m:]: the last m elements (all of s when m >= len(s))
\* for m > 0; all of s for m = 0, since -0 is 0; s[|m|:] for m < 0.
LastSlice(s, m) ==
    IF m > 0 THEN SubSeq(s, Max(1, Len(s) - m + 1), Len(s))
    ELSE IF m = 0 THEN s
    ELSE SubSeq(s, 1 - m, Len(s))

Elems(s) == {s[i] : i \in 1..Len(s)}

\* Faulty variant: the slice s[:-m] (all but the last m entries) instead of
\* s[-m:].
InCooldown_head(song_id, selected, i, k) ==
    k # 0 /\ song_id \in Elems(SubSeq(selected, 1, Len(selected) - Min(i, k)))

\* Faulty variant: notlast == 0 is not set apart, and selected_tracks[-0:] is
\* the whole buffer.
InCooldown_nobypass(song_id, selected, i, k) ==
    song_id \in Elems(LastSlice(selected, Min(i, k)))

\* max_back = min([ii, notlast]); the draw is discarded when notlast != 0
\* and song_id in selected_tracks[-max_back:].
InCooldown(song_id, selected, i, k) ==
    k # 0 /\ song_id \in Elems(LastSlice(selected, Min(i, k)))

\* Faulty variant: a discarded draw is redrawn without using up an iteration.
AdvanceLoop_retry(i, discarded) == IF discarded THEN i ELSE i + 1

\* for ii in range(1000): every iteration, also one left by continue, moves
\* ii to the next value.
AdvanceLoop(i, discarded) == i + 1

\* ---------------------------------------------------------------- assembler
\* Faulty variant: every position is filled with any entry of s (sampling
\* with replacement, as random.choices does).
Shuffles_resample(s) == [1..Len(s) -> Elems(s)]

\* random.shuffle(s): any permutation of s.
Shuffles(s) ==
    {[i \in 1..Len(s) |-> s[f[i]]] : f \in Permutations(1..Len(s))}

\* s[:n]
Prefix(s, n) == SubSeq(s, 1, Min(n, Len(s)))

\* ------------------------------------------------------------ initial state
SongIds == <<"a", "b", "c", "d", "e">>

\* The catalogs of up to MaxTracks songs: song i has the identifier
\* SongIds[i] (dictionary keys are distinct) and any stars of the range. The
\* weight function exp_star does not read date_added: one date stands for all.
Catalogs ==
    UNION {{[i \in 1..n |-> [id |-> SongIds[i], stars |-> st[i],
                             date_added |-> 0]]
               : st \in [1..n -> MinStars..MaxStars]} : n \in 0..MaxTracks}

SearchIdle ==
    /\ cumulative_weights = <<>>
    /\ target = Zero
    /\ found = -1

Init ==
    /\ my_music \in Catalogs
    /\ kwargs \in [b : 0..MaxB]
    /\ notlast \in 0..MaxNotlast
    /\ pc = "build"
    /\ weights = <<>>
    /\ sums = <<>>
    /\ song_ids = <<>>
    /\ total_weight = Zero
    /\ ii = 0
    /\ selected_tracks = <<>>
    /\ playlist_tracks = <<>>
    /\ sink = <<>>
    /\ error = "none"
    /\ SearchIdle

\* ------------------------------------------------------------------ actions
\* Lines 745-754: weights, running sums, total and normalization. The
\* catalog is read only: it is left as the weight function leaves its songs.
Build ==
    /\ pc = "build"
    /\ IF \E i \in 1..Len(my_music) : exp_star_raises(my_music[i], kwargs.b)
       THEN /\ pc' = "error"
            /\ error' = "ZeroDivisionError"
            /\ UNCHANGED <<weights, sums, song_ids, total_weight>>
       ELSE LET ws == ComputeWeights(my_music, kwargs)
                raw == RunningSums(ws)
                total == sum(ws)
            IN  /\ weights' = ws
                /\ song_ids' = Keys(my_music)
                /\ total_weight' = total
                /\ IF NormalizeRaises(raw, total)
                   THEN /\ sums' = raw
                        /\ pc' = "error"
                        /\ error' = "ZeroDivisionError"
                   ELSE /\ sums' = Normalize(raw, total)
                        /\ pc' = "loop"
                        /\ UNCHANGED error
    /\ my_music' = AfterItems(my_music)
    /\ UNCHANGED <<kwargs, notlast, ii, selected_tracks, playlist_tracks,
                   sink>>
    /\ UNCHANGED searchVars

\* Lines 758-767: one iteration of the for loop.
Draw ==
    /\ pc = "loop"
    /\ ii < N
    /\ \E rnd \in RandomValues(sums) :
          LET index == binary_search_weight(sums, rnd)
          IN  IF index >= Len(song_ids)
              THEN \* song_ids[index] raises IndexError
                   /\ pc' = "error"
                   /\ error' = "IndexError"
                   /\ UNCHANGED <<ii, selected_tracks>>
              ELSE LET song_id == song_ids[index + 1]
                       discarded ==
                           InCooldown(song_id, selected_tracks, ii, notlast)
                   IN  /\ selected_tracks' =
                             IF discarded
                             THEN selected_tracks
                             ELSE Append(selected_tracks, song_id)
                       /\ ii' = AdvanceLoop(ii, discarded)
                       /\ UNCHANGED <<pc, error>>
    /\ UNCHANGED <<my_music, kwargs, notlast, weights, sums, song_ids,
                   total_weight, playlist_tracks, sink>>
    /\ UNCHANGED searchVars

\* Lines 769-775: shuffle, truncate, hand over to the playlist sink.
Assemble ==
    /\ pc = "loop"
    /\ ii = N
    /\ \E p \in Shuffles(selected_tracks) :
          /\ selected_tracks' = p
          /\ playlist_tracks' = Prefix(p, N)
          /\ sink' = Append(sink, Prefix(p, N))
    /\ pc' = "done"
    /\ UNCHANGED <<my_music, kwargs, notlast, weights, sums, song_ids,
                   total_weight, ii, error>>
    /\ UNCHANGED searchVars

Next == Build \/ Draw \/ Assemble

Spec == Init /\ [][Next]_vars

\* The run is one sequential thread: a step that can be taken is taken.
FairSpec == Spec /\ WF_vars(Next)

\* ------------------------------------------ runs with out-of-range arguments
\* weight_cdf_shuffle accepts any integer notlast and any kwargs['b']: the
\* same run, started with a negative notlast or a negative b. A negative b
\* makes b ** (stars - 5) negative for every odd stars - 5.
InitInvalid ==
    /\ my_music \in Catalogs
    /\ kwargs \in [b : (-MaxB)..MaxB]
    /\ notlast \in (-MaxNotlast)..MaxNotlast
    /\ (notlast < 0 \/ kwargs.b < 0)
    /\ pc = "build"
    /\ weights = <<>>
    /\ sums = <<>>
    /\ song_ids = <<>>
    /\ total_weight = Zero
    /\ ii = 0
    /\ selected_tracks = <<>>
    /\ playlist_tracks = <<>>
    /\ sink = <<>>
    /\ error = "none"
    /\ SearchIdle

SpecInvalid == InitInvalid /\ [][Next]_vars

\* --------------------------------------- uniform catalog without cooldown
\* The run over a catalog of as many songs as the loop makes draws (N), all
\* with the same stars and so the same weight, with notlast = 0.
UniformCatalogs ==
    {[i \in 1..N |-> [id |-> SongIds[i], stars |-> st, date_added |-> 0]]
        : st \in MinStars..MaxStars}

InitUniform ==
    /\ my_music \in UniformCatalogs
    /\ kwargs \in [b : 1..MaxB]
    /\ notlast = 0
    /\ pc = "build"
    /\ weights = <<>>
    /\ sums = <<>>
    /\ song_ids = <<>>
    /\ total_weight = Zero
    /\ ii = 0
    /\ selected_tracks = <<>>
    /\ playlist_tracks = <<>>
    /\ sink = <<>>
    /\ error = "none"
    /\ SearchIdle

SpecUniform == InitUniform /\ [][Next]_vars

\* ---------------------------------------- exp_star_recent as weight function
\* weight_cdf_shuffle(fun=exp_star_recent, kwargs={'b': ..., 'days_back': ...,
\* 'weight_day': ...}) up to the weight of the first song: a one-song catalog
\* with any rating of the scale and any date_added up to today.
InitRecent ==
    /\ my_music \in {<<[id |-> SongIds[1], stars |-> st, date_added |-> d]>>
                        : st \in MinRating..MaxRating, d \in 0..Today}
    /\ kwargs \in [b : 1..MaxB, days_back : {1, 10},
                    weight_day : {Rat(1, 1), Rat(1, 100)}]
    /\ notlast = 0
    /\ pc = "weigh"
    /\ weights = <<>>
    /\ sums = <<>>
    /\ song_ids = <<>>
    /\ total_weight = Zero
    /\ ii = 0
    /\ selected_tracks = <<>>
    /\ playlist_tracks = <<>>
    /\ sink = <<>>
    /\ error = "none"
    /\ SearchIdle

\* Lines 749-750: weight = fun(song, **kwargs); weights.append(weight).
Weigh ==
    /\ pc = "weigh"
    /\ Len(weights) < Len(my_music)
    /\ weights' = Append(weights,
                         exp_star_recent(my_music[Len(weights) + 1], kwargs.b,
                                         kwargs.days_back, kwargs.weight_day))
    /\ UNCHANGED <<my_music, kwargs, notlast, pc, sums, song_ids,
                   total_weight, ii, selected_tracks, playlist_tracks, sink,
                   error>>
    /\ UNCHANGED searchVars

NextRecent == Weigh

SpecRecent == InitRecent /\ [][NextRecent]_vars

\* ------------------------------------------------------------ catalog sync
\* PlaylistManager.add_song and SpotifyPlaylistAPI.merge_playlist_data on a
\* catalog whose songs carry, besides stars and date_added, the metadata the
\* sync refreshes: name (artist and album are updated with it) and genres
\* (audio_features are updated the same way).
Names == {"old", "new"}

\* The identifiers the API may report, and the track data it reports.
ApiIds == {"a", "b", "c"}

Tracks == [id : ApiIds, name : Names]

HasSong(music, id) == \E i \in 1..Len(music) : music[i].id = id

IndexOf(music, id) == CHOOSE i \in 1..Len(music) : music[i].id = id

\* Song.__init__: default rating 5, no genres, date_added = datetime.now().
NewSong(track) ==
    [id |-> track.id, stars |-> 5, date_added |-> Today, name |-> track.name,
     genres |-> {}]

\* Faulty variant: the rating is reset whatever preserve_user_data says.
update_from_spotify_reset(song, track, preserve_user_data) ==
    [song EXCEPT !.stars = 5, !.name = track.name]

\* Song.update_from_spotify
update_from_spotify(song, track, preserve_user_data) ==
    [song EXCEPT !.stars = IF preserve_user_data THEN @ ELSE 5,
                 !.name = track.name]

\* PlaylistManager.add_song: update the song in place, or insert a new one
\* (a dict keeps insertion order: the new key comes last).
add_song(music, track) ==
    IF HasSong(music, track.id)
    THEN [music EXCEPT ![IndexOf(music, track.id)] =
                           update_from_spotify(@, track, TRUE)]
    ELSE Append(music, NewSong(track))

\* A song of the manager get_liked_songs returns: made by add_song on an
\* empty manager, date_added then set from the API's added_at (a day before
\* today here), genres filled in by _update_genres.
FreshSong(track) ==
    [NewSong(track) EXCEPT !.date_added = Today - 1, !.genres = {"rock"}]

\* The managers get_liked_songs may return: any tracks under distinct keys,
\* in any order (none when the request fails).
FreshData ==
    {[i \in 1..Len(ts) |-> FreshSong(ts[i])] :
        ts \in {t \in UNION {[1..n -> Tracks] : n \in 0..Cardinality(ApiIds)} :
                  \A i, j \in 1..Len(t) : i # j => t[i].id # t[j].id}}

\* One iteration of the loop of merge_playlist_data.
MergeSong(music, fresh_song) ==
    IF HasSong(music, fresh_song.id)
    THEN [music EXCEPT ![IndexOf(music, fresh_song.id)] =
             [update_from_spotify(@, [id |-> fresh_song.id,
                                      name |-> fresh_song.name], TRUE)
                 EXCEPT !.genres = @ \cup fresh_song.genres]]
    ELSE Append(music, fresh_song)

\* for spotify_id, fresh_song in fresh_data.items()
RECURSIVE MergeAll(_, _)
MergeAll(music, fresh_data) ==
    IF fresh_data = <<>> THEN music
    ELSE MergeAll(MergeSong(music, Head(fresh_data)), Tail(fresh_data))

\* The catalogs as loaded, with their metadata.
SyncCatalogs ==
    {[i \in 1..Len(c) |->
         [id |-> c[i].id, stars |-> c[i].stars, date_added |-> c[i].date_added,
          name |-> "old", genres |-> {}]] : c \in Catalogs}

InitSync ==
    /\ my_music \in SyncCatalogs
    /\ kwargs = [b |-> 2]
    /\ notlast = 0
    /\ pc = "sync"
    /\ weights = <<>>
    /\ sums = <<>>
    /\ song_ids = <<>>
    /\ total_weight = Zero
    /\ ii = 0
    /\ selected_tracks = <<>>
    /\ playlist_tracks = <<>>
    /\ sink = <<>>
    /\ error = "none"
    /\ SearchIdle

\* my_music.add_song(track_data_from_spotify)
AddSong ==
    /\ pc = "sync"
    /\ \E track \in Tracks : my_music' = add_song(my_music, track)
    /\ UNCHANGED <<kwargs, notlast, pc, weights, sums, song_ids, total_weight,
                   ii, selected_tracks, playlist_tracks, sink, error>>
    /\ UNCHANGED searchVars

\* spotify_api.merge_playlist_data(my_music, "liked_songs")
MergeLikedSongs ==
    /\ pc = "sync"
    /\ \E fresh_data \in FreshData : my_music' = MergeAll(my_music, fresh_data)
    /\ UNCHANGED <<kwargs, notlast, pc, weights, sums, song_ids, total_weight,
                   ii, selected_tracks, playlist_tracks, sink, error>>
    /\ UNCHANGED searchVars

NextSync == AddSong \/ MergeLikedSongs

SpecSync == InitSync /\ [][NextSync]_vars

\* ------------------------------------------- binary_search_weight on its own
GridValues == {Rat(k, Grid) : k \in 0..Grid}

NonDecreasing(s) == \A i \in 1..(Len(s) - 1) : RatGE(s[i + 1], s[i])

Tables ==
    {s \in UNION {[1..n -> GridValues] : n \in 0..MaxLen} : NonDecreasing(s)}

RunIdle ==
    /\ my_music = <<>>
    /\ kwargs = [b |-> 2]
    /\ notlast = 0
    /\ pc = "search"
    /\ weights = <<>>
    /\ sums = <<>>
    /\ song_ids = <<>>
    /\ total_weight = Zero
    /\ ii = 0
    /\ selected_tracks = <<>>
    /\ playlist_tracks = <<>>
    /\ sink = <<>>
    /\ error = "none"

InitSearch ==
    /\ RunIdle
    /\ cumulative_weights \in Tables
    /\ target \in GridValues
    /\ found = -1

Search ==
    /\ pc = "search"
    /\ found = -1
    /\ found' = binary_search_weight(cumulative_weights, target)
    /\ UNCHANGED <<cumulative_weights, target>>
    /\ UNCHANGED runVars

NextSearch == Search

SpecSearch == InitSearch /\ [][NextSearch]_vars

\* ------------------------------------------------------------------- claims
\* The weight the program computes for song i of the catalog, and the sum of
\* the weights of songs 1..i, both taken from my_music directly.
WeightOf(i) == exp_star(my_music[i], kwargs.b)

RECURSIVE PrefixWeight(_)
PrefixWeight(i) ==
    IF i = 0 THEN Zero ELSE RatAdd(PrefixWeight(i - 1), WeightOf(i))

WeightsComputable ==
    \A i \in 1..Len(my_music) : ~ exp_star_raises(my_music[i], kwargs.b)

\* The catalog is non-empty, all weights are non-negative, their total is
\* positive.
PositiveCatalog ==
    /\ my_music # <<>>
    /\ WeightsComputable
    /\ \A i \in 1..Len(my_music) : RatGE(WeightOf(i), Zero)
    /\ RatGT(PrefixWeight(Len(my_music)), Zero)

LeftmostGreater(cw, t) ==
    LET hits == {i \in 1..Len(cw) : RatGT(cw[i], t)}
    IN  IF hits = {} THEN Len(cw)
        ELSE (CHOOSE i \in hits : \A k \in hits : i <= k) - 1

TieTable == <<Rat(2, 10), Rat(5, 10), Rat(5, 10), Rat(10, 10)>>
BoundaryTable == <<Rat(3, 10), Rat(10, 10)>>

\* C2: binary_search_weight returns the leftmost index whose entry exceeds the
\* target, and the length of the table when no entry does; the four examples
\* of the claim give 3, 0, 1 and 1.
C2_LeftmostStrictlyGreater ==
    /\ found # -1 => found = LeftmostGreater(cumulative_weights, target)
    /\ (found # -1 /\ cumulative_weights = TieTable /\ target = Rat(5, 10))
          => found = 3
    /\ (found # -1 /\ cumulative_weights = BoundaryTable) =>
          /\ target = Zero => found = 0
          /\ target = Rat(3, 10) => found = 1
          /\ target = Rat(9, 10) => found = 1

C2_Witness ==
    /\ cumulative_weights = TieTable
    /\ target = Rat(5, 10)
    /\ found = 3

C4_ExactlyN ==
    (pc = "done" /\ error = "none") => Len(selected_tracks) = N

\* C5 as stated: when the loop has used up its draws with fewer than N
\* selections the run fails with AttemptsExhausted, and the playlist sink is
\* never given a short buffer.
C5_ShortBufferFails ==
    /\ (pc # "loop" /\ ii = N /\ Len(selected_tracks) < N)
          => error = "AttemptsExhausted"
    /\ \A k \in 1..Len(sink) : Len(sink[k]) = N

\* C6: at most N draws are made, discarded ones included, and a run over a
\* non-empty catalog of positive total weight reaches its end.
C6_Terminates ==
    /\ [](ii <= N)
    /\ (pc = "build" /\ PositiveCatalog) ~> (pc = "done" /\ ii = N)

\* A run has ended although the catalog has fewer identifiers than notlast
\* and draws were discarded.
C6_Witness ==
    /\ pc = "done"
    /\ Len(my_music) < notlast
    /\ Len(selected_tracks) < ii

\* The entry before entry i of sums, 0 before the first.
PrevSum(i) == IF i = 1 THEN Zero ELSE sums[i - 1]

C8_Normalized ==
    (pc \in {"loop", "done"} /\ PositiveCatalog) =>
        /\ Len(sums) = Len(my_music)
        /\ Len(song_ids) = Len(my_music)
        /\ \A i \in 1..Len(my_music) :
              /\ sums[i] = RatDiv(PrefixWeight(i), PrefixWeight(Len(my_music)))
              /\ song_ids[i] = my_music[i].id
        /\ sums[Len(sums)] = One

\* Weights 1/2 and 2 (stars 4 and 6 with b = 2): sums 1/5 and 1.
C8_Witness ==
    /\ pc = "loop"
    /\ weights = <<Rat(1, 2), Rat(2, 1)>>
    /\ sums = <<Rat(1, 5), Rat(1, 1)>>
    /\ song_ids = <<"a", "b">>

\* Every weight of a non-empty catalog is computed and is zero.
AllWeightsZero ==
    /\ my_music # <<>>
    /\ WeightsComputable
    /\ \A i \in 1..Len(my_music) : WeightOf(i) = Zero

C10_EmptyFailsInBuilder ==
    (my_music = <<>> /\ pc # "build") =>
        /\ pc = "error"
        /\ error # "IndexError"
        /\ sums = <<>>
        /\ sink = <<>>

\* Some song of the catalog has a negative weight.
NegativeWeight ==
    /\ WeightsComputable
    /\ \E i \in 1..Len(my_music) : RatGT(Zero, WeightOf(i))

\* C11 as stated: a run whose notlast is negative, or whose weight function
\* returns a negative weight for some song, fails before any sampling
\* begins: it never enters the loop, draws nothing, leaves selected_tracks
\* empty and passes nothing to create_playlist_from_ids.
C11_InvalidParameterFails ==
    (notlast < 0 \/ NegativeWeight) =>
        /\ pc \in {"build", "error"}
        /\ ii = 0
        /\ selected_tracks = <<>>
        /\ sink = <<>>

\* The weighed song, its age in days, and the bonus a song of that age is
\* given when it is given one.
WeighedSong == my_music[1]

Age == Today - WeighedSong.date_added

Bonus == RatMul(Rat(kwargs.days_back - Age, 1), kwargs.weight_day)

Weighed == pc = "weigh" /\ Len(weights) = 1

\* C12 as stated: on the 1-10 scale the weight is exp_star plus
\* (days_back - age) * weight_day when the song holds the maximum rating and
\* age < days_back, and exp_star otherwise.
C12_BonusAtMaximumRating ==
    Weighed =>
        weights[1] =
            IF WeighedSong.stars = MaxRating /\ Age < kwargs.days_back
            THEN RatAdd(exp_star(WeighedSong, kwargs.b), Bonus)
            ELSE exp_star(WeighedSong, kwargs.b)

\* C12: the weight is exp_star plus (days_back - age) * weight_day when the
\* song has the default rating 5 and age < days_back, and exp_star otherwise:
\* a song of any other rating, the maximum 10 included, never gets a bonus.
\* With days_back = 10 and weight_day = 1 a song rated 5 weighs 1 + 10 at age
\* 0 and 1 at ages 10 and 11.
C12_BonusAtDefaultRating ==
    Weighed =>
        /\ weights[1] =
               IF WeighedSong.stars = 5 /\ Age < kwargs.days_back
               THEN RatAdd(exp_star(WeighedSong, kwargs.b), Bonus)
               ELSE exp_star(WeighedSong, kwargs.b)
        /\ WeighedSong.stars # 5 =>
               weights[1] = (IF WeighedSong.stars >= 5
                             THEN <<Pow(kwargs.b, WeighedSong.stars - 5), 1>>
                             ELSE <<1, Pow(kwargs.b, 5 - WeighedSong.stars)>>)
        /\ (WeighedSong.stars = 5 /\ kwargs.days_back = 10
              /\ kwargs.weight_day = One) =>
               weights[1] = (IF Age = 0 THEN <<11, 1>>
                             ELSE IF Age >= 10 THEN One
                             ELSE <<1 + (10 - Age), 1>>)

\* A song rated 5 and added today was weighed with days_back = 10 and
\* weight_day = 1: its weight is 11.
C12_Witness ==
    /\ Weighed
    /\ WeighedSong.stars = 5
    /\ Age = 0
    /\ kwargs = [b |-> 2, days_back |-> 10, weight_day |-> One]
    /\ weights[1] = <<11, 1>>

\* C13 as stated: over N songs of equal weight, with N draws and notlast = 0,
\* every run ends with a selection buffer that is a permutation of all N
\* identifiers, each exactly once.
C13_EndsWithPermutation ==
    pc = "done" =>
        /\ Len(selected_tracks) = N
        /\ Elems(selected_tracks) = Elems(Keys(my_music))

\* C13: over N songs of equal weight, with N draws and notlast = 0, no draw
\* is discarded and the run does not fail: it ends with a selection buffer of
\* exactly N identifiers, each one of the catalog's identifiers (repeats
\* are permitted), which is handed over once.
C13_UniformNoCooldown ==
    /\ pc # "error"
    /\ pc = "loop" => Len(selected_tracks) = ii
    /\ pc = "done" =>
          /\ Len(selected_tracks) = N
          /\ Elems(selected_tracks) \subseteq Elems(Keys(my_music))
          /\ sink = <<selected_tracks>>

\* A run has ended with the same identifier in every entry of the buffer.
C13_Witness ==
    /\ pc = "done"
    /\ notlast = 0
    /\ Len(my_music) = N
    /\ Len(selected_tracks) = N
    /\ Cardinality(Elems(selected_tracks)) = 1

\* The number of occurrences of x in the sequence s.
Count(x, s) == Cardinality({i \in 1..Len(s) : s[i] = x})

\* C14: the list passed to create_playlist_from_ids is a permutation of the
\* selection buffer truncated to N: it has at most N identifiers, only
\* identifiers of the buffer, each no more often than in the buffer, and
\* exactly as often when the buffer has at most N entries.
C14_PlaylistFromBuffer ==
    [][(pc = "loop" /\ pc' = "done") =>
          /\ Len(sink') = Len(sink) + 1
          /\ LET handed == sink'[Len(sink')]
                 ids == Elems(handed) \cup Elems(selected_tracks)
             IN  /\ Len(handed) <= N
                 /\ Elems(handed) \subseteq Elems(selected_tracks)
                 /\ \A x \in ids :
                        Count(x, handed) <= Count(x, selected_tracks)
                 /\ Len(selected_tracks) <= N =>
                        \A x \in ids :
                            Count(x, handed) = Count(x, selected_tracks)]_vars

\* A list of N identifiers, one of them more than once, has been handed over.
C14_Witness ==
    /\ pc = "done"
    /\ Len(sink) = 1
    /\ Len(sink[1]) = N
    /\ Cardinality(Elems(sink[1])) = 2

\* C15: no step of a sampling run changes the catalog: the identifiers, their
\* order, every song's stars and date_added are the same before and after,
\* whatever the draws, discarded ones included.
C15_CatalogUnchanged == [][my_music' = my_music]_vars

\* A run over a full catalog has ended after discarding a draw.
C15_Witness ==
    /\ pc = "done"
    /\ Len(my_music) = MaxTracks
    /\ sink # <<>>
    /\ Len(selected_tracks) < ii

\* C16: every add_song and every merge_playlist_data("liked_songs") leaves
\* each song of the catalog in its place under the same identifier with the
\* same stars and date_added (only name and genres may differ), removes none,
\* and adds songs only under new identifiers, with the default rating 5.
C16_SyncPreservesUserData ==
    [][/\ Len(my_music') >= Len(my_music)
       /\ \A i \in 1..Len(my_music) :
             /\ my_music'[i].id = my_music[i].id
             /\ my_music'[i].stars = my_music[i].stars
             /\ my_music'[i].date_added = my_music[i].date_added
       /\ \A i \in (Len(my_music) + 1)..Len(my_music') :
             /\ my_music'[i].stars = 5
             /\ ~ HasSong(my_music, my_music'[i].id)]_vars

\* A rated song of the loaded catalog has been refreshed (new name, genres
\* merged in), and a song has been added next to it.
C16_Witness ==
    /\ pc = "sync"
    /\ \E i, j \in 1..Len(my_music) :
          /\ my_music[i].stars # 5
          /\ my_music[i].date_added = 0
          /\ my_music[i].name = "new"
          /\ my_music[i].genres # {}
          /\ my_music[j].date_added # 0
          /\ my_music[j].stars = 5


====
